---- MODULE Spec2Model ----
(***************************************************************************)
(* The Hotel class of app.py as a state machine: one registry (total_rooms,*)
(* available_rooms, guests, history, room_type_count) and its two mutating *)
(* methods check_in and check_out.  A Python exception raised in the       *)
(* middle of a method keeps the assignments made before it, as the         *)
(* process-wide registry does.                                             *)
(***************************************************************************)
EXTENDS Integers, Sequences, FiniteSets, TLC

VARIABLES
    total_rooms,        \* self.total_rooms
    available_rooms,    \* self.available_rooms
    guests,             \* self.guests: room_number -> guest_info
    history,            \* self.history: the checked-out guests, in order
    room_type_count,    \* self.room_type_count: room type -> counter
    op,                 \* the method called last
    ret,                \* what that call returned or raised
    check_ins,          \* how many check_in calls got past the availability test
    response,           \* the answer to the HTTP request handled last
    threads             \* the check_in calls of two request threads, by statement

vars == <<total_rooms, available_rooms, guests, history, room_type_count, op, ret,
          check_ins, response, threads>>

\* The registry proper: the fields of the Hotel object.
registry == <<total_rooms, available_rooms, guests, history, room_type_count>>

(***************************************************************************)
(* Bounds of the model.                                                    *)
(***************************************************************************)
\* Hotel(total_rooms) is constructed with 1..MaxTotalRooms rooms
MaxTotalRooms == 2
\* check_in calls that get past the availability test, per behaviour
MaxCheckIns == 3

(***************************************************************************)
(* Inputs.                                                                 *)
(***************************************************************************)
Names == {"Alice"}
Emails == {"alice@example.org"}
Phones == {"555-0100"}
SpecialRequests == {""}
\* a room type of the catalog, or any other string a caller may pass
RoomTypeInputs == {"Single", "Double", "Suite", "Penthouse"}
Nights == {1, 2}
\* datetime.datetime.now().strftime("%Y-%m-%d %H:%M:%S"): the wall clock read
\* to the second, an input of each call
Dates == {"2024-01-01 10:00:00"}
\* room numbers a caller may pass to check_out: 0 and MaxTotalRooms + 1 are
\* never assigned
RoomInputs == 0..(MaxTotalRooms + 1)

(***************************************************************************)
(* ROOM_TYPES and the dict operations used on it and on guests.            *)
(***************************************************************************)
ROOM_TYPES == [Single |-> 50, Double |-> 80, Suite |-> 120]

ROOM_TYPES_get_zero(key, default) ==
    IF key \in DOMAIN ROOM_TYPES THEN ROOM_TYPES[key] ELSE 0

\* ROOM_TYPES.get(key, default)
ROOM_TYPES_get(key, default) ==
    IF key \in DOMAIN ROOM_TYPES THEN ROOM_TYPES[key] ELSE default

DictSet_keeps_existing(d, k, v) ==
    [x \in (DOMAIN d) \cup {k} |-> IF x \in DOMAIN d THEN d[x] ELSE v]

\* d[k] = v on a dict: inserts the key or replaces its value
DictSet(d, k, v) == [x \in (DOMAIN d) \cup {k} |-> IF x = k THEN v ELSE d[x]]

\* d.pop(k): the dict without the key
DictPop(d, k) == [x \in (DOMAIN d) \ {k} |-> d[x]]

(***************************************************************************)
(* Outcomes of a call.                                                     *)
(***************************************************************************)
RetNone == [kind |-> "None", room_number |-> 0, guest |-> <<>>]
RetRoom(n) == [kind |-> "room_number", room_number |-> n, guest |-> <<>>]
RetGuest(g) == [kind |-> "guest", room_number |-> 0, guest |-> <<g>>]
RetKeyError == [kind |-> "KeyError", room_number |-> 0, guest |-> <<>>]

(***************************************************************************)
(* Answers of the Flask routes: the route, the status and, for a rendered  *)
(* page, the values handed to the template.                                *)
(***************************************************************************)
NoResponse == [route |-> "", status |-> 0, body |-> <<>>]
Redirect(route) == [route |-> route, status |-> 302, body |-> <<>>]
ServerError(route) == [route |-> route, status |-> 500, body |-> <<>>]
Page(route, values) == [route |-> route, status |-> 200, body |-> <<values>>]

(***************************************************************************)
(* Request threads: app.run serves each request on a thread of its own,    *)
(* and all of them use the one hotel object.  A thread is at a line of     *)
(* check_in, with the locals of its call.                                  *)
(***************************************************************************)
Threads == {"t1", "t2"}

Idle == [pc |-> "idle", name |-> "", email |-> "", phone |-> "", room_type |-> "",
         nights |-> 0, special_requests |-> "", now |-> "", room_number |-> 0,
         total_cost |-> 0, loaded |-> 0, alone |-> TRUE, result |-> RetNone]

(***************************************************************************)
(* Hotel.__init__                                                          *)
(***************************************************************************)
Init ==
    /\ total_rooms \in 1..MaxTotalRooms
    /\ available_rooms = total_rooms
    /\ guests = <<>>
    /\ history = <<>>
    /\ room_type_count = [key \in DOMAIN ROOM_TYPES |-> 0]
    /\ op = "none"
    /\ ret = RetNone
    /\ check_ins = 0
    /\ response = NoResponse
    /\ threads = [t \in Threads |-> Idle]

(***************************************************************************)
(* Hotel.check_in                                                          *)
(***************************************************************************)
no_rooms_available_negative(available) == available < 0

\* if self.available_rooms == 0
no_rooms_available(available) == available = 0

next_room_number_from_zero(total, available) == total - available

next_room_number_fixed(total, available) == total

\* room_number = self.total_rooms - self.available_rooms + 1
next_room_number(total, available) == total - available + 1

check_in(name, email, phone, room_type, nights, special_requests, now) ==
    /\ op' = "check_in"
    /\ IF no_rooms_available(available_rooms)
       THEN /\ ret' = RetNone
            /\ UNCHANGED <<registry, check_ins>>
       ELSE LET room_number == next_room_number(total_rooms, available_rooms)
                price_per_night == ROOM_TYPES_get(room_type, 50)
                total_cost == price_per_night * nights
                check_in_date == now
            IN /\ check_ins < MaxCheckIns
               /\ check_ins' = check_ins + 1
               /\ guests' = DictSet(guests, room_number,
                                [name |-> name,
                                 email |-> email,
                                 phone |-> phone,
                                 room_type |-> room_type,
                                 nights |-> nights,
                                 total_cost |-> total_cost,
                                 check_in_date |-> check_in_date,
                                 special_requests |-> special_requests])
               /\ available_rooms' = available_rooms - 1
               \* self.room_type_count[room_type] += 1 raises KeyError on a
               \* room_type that is no key of the dict; the two assignments
               \* above are already made
               /\ IF room_type \in DOMAIN room_type_count
                  THEN /\ room_type_count' =
                              [room_type_count EXCEPT ![room_type] = @ + 1]
                       /\ ret' = RetRoom(room_number)
                  ELSE /\ UNCHANGED room_type_count
                       /\ ret' = RetKeyError
               /\ UNCHANGED <<total_rooms, history>>

(***************************************************************************)
(* Hotel.check_out                                                         *)
(***************************************************************************)
check_out_not_active_frees_room ==
    /\ ret' = RetNone
    /\ available_rooms' = available_rooms + 1
    /\ UNCHANGED <<total_rooms, guests, history, room_type_count, check_ins>>

\* room_number not in self.guests: return None
check_out_not_active ==
    /\ ret' = RetNone
    /\ UNCHANGED <<registry, check_ins>>

check_out(room_number, now) ==
    /\ op' = "check_out"
    /\ IF room_number \in DOMAIN guests
       THEN LET popped == guests[room_number]
                guest == [name |-> popped.name,
                          email |-> popped.email,
                          phone |-> popped.phone,
                          room_type |-> popped.room_type,
                          nights |-> popped.nights,
                          total_cost |-> popped.total_cost,
                          check_in_date |-> popped.check_in_date,
                          special_requests |-> popped.special_requests,
                          room_number |-> room_number,
                          check_out_date |-> now]
            IN /\ guests' = DictPop(guests, room_number)
               /\ history' = Append(history, guest)
               /\ available_rooms' = available_rooms + 1
               \* self.room_type_count[guest['room_type']] -= 1 raises KeyError
               \* when the stay's room_type is no key of the dict
               /\ IF guest.room_type \in DOMAIN room_type_count
                  THEN /\ room_type_count' =
                              [room_type_count EXCEPT ![guest.room_type] = @ - 1]
                       /\ ret' = RetGuest(guest)
                  ELSE /\ UNCHANGED room_type_count
                       /\ ret' = RetKeyError
               /\ UNCHANGED <<total_rooms, check_ins>>
       ELSE check_out_not_active

CheckIn ==
    \E name \in Names, email \in Emails, phone \in Phones,
       room_type \in RoomTypeInputs, nights \in Nights,
       special_requests \in SpecialRequests, now \in Dates :
        /\ check_in(name, email, phone, room_type, nights, special_requests, now)
        /\ UNCHANGED <<response, threads>>

CheckOut ==
    \E room_number \in RoomInputs, now \in Dates :
        /\ check_out(room_number, now)
        /\ UNCHANGED <<response, threads>>

Next == CheckIn \/ CheckOut

Spec == Init /\ [][Next]_vars

(***************************************************************************)
(* The queries of Hotel.                                                   *)
(***************************************************************************)
get_guest_list == guests

get_available_rooms == available_rooms

get_history == history

\* list(ROOM_TYPES): the keys in the order the dict literal declares them
ROOM_TYPES_list == <<"Single", "Double", "Suite">>

\* list.index(x): the 0-based position of the first x
list_index(list, x) ==
    (CHOOSE i \in 1..Len(list) :
        list[i] = x /\ \A j \in 1..(i - 1) : list[j] # x) - 1

get_available_by_type_zero_based ==
    [rtype \in DOMAIN ROOM_TYPES |->
        list_index(ROOM_TYPES_list, rtype) - room_type_count[rtype]]

get_available_by_type ==
    [rtype \in DOMAIN ROOM_TYPES |->
        LET total == list_index(ROOM_TYPES_list, rtype) + 1
        IN total - room_type_count[rtype]]

(***************************************************************************)
(* int() on a form value.  A form value that is parsed is a sequence of    *)
(* one-character strings.                                                  *)
(***************************************************************************)
DigitValue ==
    [c \in {"0", "1", "2", "3", "4", "5", "6", "7", "8", "9"} |->
        CASE c = "0" -> 0 [] c = "1" -> 1 [] c = "2" -> 2 [] c = "3" -> 3
          [] c = "4" -> 4 [] c = "5" -> 5 [] c = "6" -> 6 [] c = "7" -> 7
          [] c = "8" -> 8 [] c = "9" -> 9]

IsDigit(c) == c \in DOMAIN DigitValue

Whitespace == {" "}

RECURSIVE lstrip(_)
lstrip(str) ==
    IF str # <<>> /\ Head(str) \in Whitespace THEN lstrip(Tail(str)) ELSE str

RECURSIVE rstrip(_)
rstrip(str) ==
    IF str # <<>> /\ str[Len(str)] \in Whitespace
    THEN rstrip(SubSeq(str, 1, Len(str) - 1))
    ELSE str

strip(str) == rstrip(lstrip(str))

\* the text after an optional sign
unsigned_part(str) ==
    IF str # <<>> /\ Head(str) \in {"+", "-"} THEN Tail(str) ELSE str

\* digits, with single underscores allowed between two digits
is_digit_string(str) ==
    /\ str # <<>>
    /\ \A i \in 1..Len(str) : IsDigit(str[i]) \/ str[i] = "_"
    /\ IsDigit(str[1])
    /\ IsDigit(str[Len(str)])
    /\ \A i \in 1..(Len(str) - 1) : ~(str[i] = "_" /\ str[i + 1] = "_")

RECURSIVE digits_value(_, _)
digits_value(str, acc) ==
    IF str = <<>> THEN acc
    ELSE IF Head(str) = "_" THEN digits_value(Tail(str), acc)
    ELSE digits_value(Tail(str), 10 * acc + DigitValue[Head(str)])

\* int(str) raises ValueError exactly when this is false
int_accepts(str) == is_digit_string(unsigned_part(strip(str)))

\* int(str), where it does not raise
int(str) ==
    LET text == strip(str)
        magnitude == digits_value(unsigned_part(text), 0)
    IN IF text # <<>> /\ Head(text) = "-" THEN 0 - magnitude ELSE magnitude

(***************************************************************************)
(* The forms a client may post.                                            *)
(***************************************************************************)
\* the decimal text of a natural number, as a browser's number input sends it
RECURSIVE decimal(_)
decimal(n) ==
    LET last == CHOOSE c \in DOMAIN DigitValue : DigitValue[c] = n % 10
    IN IF n < 10 THEN <<last>> ELSE Append(decimal(n \div 10), last)

\* form values of the room field that are no integer
NonIntegerFields == {<<>>, <<"x">>, <<"1", ".", "5">>}

\* form values of the room field: the room numbers of RoomInputs, other
\* texts that int() accepts, and texts that it rejects
RoomFields ==
    {decimal(n) : n \in RoomInputs}
        \cup {<<" ", "1">>, <<"-", "1">>}
        \cup NonIntegerFields

NightsFields == {<<"1">>, <<"x">>}

\* a posted form: the fields it carries, each with its value.  The forms
\* carry the fields their view function reads with request.form[field].
CheckinFields == {"name", "email", "phone", "room_type", "nights"}

CheckinForm(name, email, phone, room_type, nights, optional) ==
    [field \in CheckinFields \cup DOMAIN optional |->
        CASE field = "name" -> name
          [] field = "email" -> email
          [] field = "phone" -> phone
          [] field = "room_type" -> room_type
          [] field = "nights" -> nights
          [] OTHER -> optional[field]]

\* every form with the special_requests field, and one without it
CheckinForms ==
    {CheckinForm(name, email, phone, room_type, nights,
                 [field \in {"special_requests"} |-> special_requests]) :
       name \in Names, email \in Emails, phone \in Phones,
       room_type \in RoomTypeInputs, nights \in NightsFields,
       special_requests \in SpecialRequests}
      \cup {CheckinForm(name, email, phone, "Single", <<"1">>,
                        [field \in {} |-> ""]) :
              name \in Names, email \in Emails, phone \in Phones}

CheckoutForms == {[field \in {"room"} |-> room] : room \in RoomFields}

\* request.form.get(field, default)
form_get(form, field, default) ==
    IF field \in DOMAIN form THEN form[field] ELSE default

(***************************************************************************)
(* The Flask routes.  An exception that leaves the view function ends the  *)
(* request with status 500.                                                *)
(***************************************************************************)
\* GET /
index ==
    /\ response' = Page("/", [available |-> get_available_rooms,
                              available_by_type |-> get_available_by_type,
                              guests |-> get_guest_list,
                              history |-> get_history,
                              room_types |-> ROOM_TYPES])
    /\ UNCHANGED <<registry, op, ret, check_ins>>

\* POST /checkin
checkin(form, now) ==
    IF ~int_accepts(form["nights"])
    THEN \* int(request.form['nights']) raises ValueError
         /\ response' = ServerError("/checkin")
         /\ UNCHANGED <<registry, op, ret, check_ins>>
    ELSE /\ check_in(form["name"], form["email"], form["phone"],
                     form["room_type"], int(form["nights"]),
                     form_get(form, "special_requests", ""), now)
         /\ response' = IF ret'.kind = "KeyError"
                        THEN ServerError("/checkin")
                        ELSE Redirect("/checkin")

checkout_ValueError_uncaught ==
    /\ response' = ServerError("/checkout")
    /\ UNCHANGED <<registry, op, ret, check_ins>>

\* except ValueError: pass, then the redirect
checkout_ValueError ==
    /\ response' = Redirect("/checkout")
    /\ UNCHANGED <<registry, op, ret, check_ins>>

\* POST /checkout
checkout(form, now) ==
    IF ~int_accepts(form["room"])
    THEN checkout_ValueError
    ELSE /\ check_out(int(form["room"]), now)
         \* a KeyError is no ValueError: it leaves the view function
         /\ response' = IF ret'.kind = "KeyError"
                        THEN ServerError("/checkout")
                        ELSE Redirect("/checkout")

GetIndex == index /\ UNCHANGED threads

PostCheckin ==
    \E form \in CheckinForms, now \in Dates :
        checkin(form, now) /\ UNCHANGED threads

PostCheckout ==
    \E form \in CheckoutForms, now \in Dates :
        checkout(form, now) /\ UNCHANGED threads

NextHttp == GetIndex \/ PostCheckin \/ PostCheckout

SpecHttp == Init /\ [][NextHttp]_vars

(***************************************************************************)
(* check_in statement by statement, for two threads that each make one     *)
(* call on the shared hotel.  The augmented assignments of lines 52 and 53 *)
(* load the value and store the result in two steps; the statements that   *)
(* touch only locals (lines 38-40, 54) go with the step before them.       *)
(***************************************************************************)
Other(t) == CHOOSE u \in Threads : u # t

\* the call: the arguments are bound; alone records that no other call is
\* under way
check_in_call(t, name, email, phone, room_type, nights, special_requests, now) ==
    /\ threads[t].pc = "idle"
    /\ threads' = [threads EXCEPT ![t] =
                      [@ EXCEPT !.pc = "34", !.name = name, !.email = email,
                                !.phone = phone, !.room_type = room_type,
                                !.nights = nights,
                                !.special_requests = special_requests,
                                !.now = now,
                                !.alone = threads[Other(t)].pc \in {"idle", "done"}]]
    /\ UNCHANGED <<registry, op, ret, check_ins, response>>

\* if self.available_rooms == 0: return None
check_in_34(t) ==
    /\ threads[t].pc = "34"
    /\ IF no_rooms_available(available_rooms)
       THEN /\ threads' = [threads EXCEPT ![t] =
                              [@ EXCEPT !.pc = "done", !.result = RetNone]]
            /\ op' = "check_in"
            /\ ret' = RetNone
            /\ UNCHANGED check_ins
       ELSE /\ threads' = [threads EXCEPT ![t] = [@ EXCEPT !.pc = "37"]]
            /\ check_ins' = check_ins + 1
            /\ UNCHANGED <<op, ret>>
    /\ UNCHANGED <<registry, response>>

\* room_number = ..., price_per_night, total_cost, check_in_date
check_in_37(t) ==
    /\ threads[t].pc = "37"
    /\ threads' = [threads EXCEPT ![t] =
          [@ EXCEPT !.pc = "42",
                    !.room_number = next_room_number(total_rooms, available_rooms),
                    !.total_cost = ROOM_TYPES_get(threads[t].room_type, 50)
                                      * threads[t].nights]]
    /\ UNCHANGED <<registry, op, ret, check_ins, response>>

\* self.guests[room_number] = {...}
check_in_42(t) ==
    /\ threads[t].pc = "42"
    /\ guests' = DictSet(guests, threads[t].room_number,
                         [name |-> threads[t].name,
                          email |-> threads[t].email,
                          phone |-> threads[t].phone,
                          room_type |-> threads[t].room_type,
                          nights |-> threads[t].nights,
                          total_cost |-> threads[t].total_cost,
                          check_in_date |-> threads[t].now,
                          special_requests |-> threads[t].special_requests])
    /\ threads' = [threads EXCEPT ![t] = [@ EXCEPT !.pc = "52"]]
    /\ UNCHANGED <<total_rooms, available_rooms, history, room_type_count, op, ret,
                   check_ins, response>>

\* self.available_rooms -= 1: the load
check_in_52_load(t) ==
    /\ threads[t].pc = "52"
    /\ threads' = [threads EXCEPT ![t] =
                      [@ EXCEPT !.pc = "52s", !.loaded = available_rooms]]
    /\ UNCHANGED <<registry, op, ret, check_ins, response>>

\* self.available_rooms -= 1: the store
check_in_52_store(t) ==
    /\ threads[t].pc = "52s"
    /\ available_rooms' = threads[t].loaded - 1
    /\ threads' = [threads EXCEPT ![t] = [@ EXCEPT !.pc = "53"]]
    /\ UNCHANGED <<total_rooms, guests, history, room_type_count, op, ret,
                   check_ins, response>>

\* self.room_type_count[room_type] += 1: the load, or the KeyError
check_in_53_load(t) ==
    /\ threads[t].pc = "53"
    /\ IF threads[t].room_type \in DOMAIN room_type_count
       THEN /\ threads' = [threads EXCEPT ![t] =
                  [@ EXCEPT !.pc = "53s",
                            !.loaded = room_type_count[threads[t].room_type]]]
            /\ UNCHANGED <<op, ret>>
       ELSE /\ threads' = [threads EXCEPT ![t] =
                              [@ EXCEPT !.pc = "done", !.result = RetKeyError]]
            /\ op' = "check_in"
            /\ ret' = RetKeyError
    /\ UNCHANGED <<registry, check_ins, response>>

\* self.room_type_count[room_type] += 1: the store; return room_number
check_in_53_store(t) ==
    /\ threads[t].pc = "53s"
    /\ room_type_count' =
          [room_type_count EXCEPT ![threads[t].room_type] = threads[t].loaded + 1]
    /\ threads' = [threads EXCEPT ![t] =
          [@ EXCEPT !.pc = "done", !.result = RetRoom(threads[t].room_number)]]
    /\ op' = "check_in"
    /\ ret' = RetRoom(threads[t].room_number)
    /\ UNCHANGED <<total_rooms, available_rooms, guests, history, check_ins,
                   response>>

ThreadCall ==
    \E t \in Threads, name \in Names, email \in Emails, phone \in Phones,
       room_type \in RoomTypeInputs, nights \in Nights,
       special_requests \in SpecialRequests, now \in Dates :
        check_in_call(t, name, email, phone, room_type, nights,
                      special_requests, now)

ThreadStep ==
    \E t \in Threads :
        \/ check_in_34(t)
        \/ check_in_37(t)
        \/ check_in_42(t)
        \/ check_in_52_load(t)
        \/ check_in_52_store(t)
        \/ check_in_53_load(t)
        \/ check_in_53_store(t)

NextRace == ThreadCall \/ ThreadStep

SpecRace == Init /\ [][NextRace]_vars

(***************************************************************************)
(* Vocabulary of the properties.                                           *)
(***************************************************************************)
Catalog == DOMAIN ROOM_TYPES

ActiveCount == Cardinality(DOMAIN guests)

ActiveOfType(T) == Cardinality({r \in DOMAIN guests : guests[r].room_type = T})

\* the nightly prices as the specification lists them
ListedPrice(room_type) ==
    CASE room_type = "Single" -> 50
      [] room_type = "Double" -> 80
      [] room_type = "Suite" -> 120
      [] OTHER -> 50

IsPrefix(s, t) == Len(s) <= Len(t) /\ SubSeq(t, 1, Len(s)) = s

\* the fields a stay is created with, as they are kept in a record of either
\* the active mapping or history
OriginalFields(g) ==
    [name |-> g.name, email |-> g.email, phone |-> g.phone,
     room_type |-> g.room_type, nights |-> g.nights, total_cost |-> g.total_cost,
     check_in_date |-> g.check_in_date, special_requests |-> g.special_requests]

(***************************************************************************)
(* C1: in every reachable state available_rooms plus the number of entries *)
(* of the active guests mapping equals total_rooms.                        *)
(***************************************************************************)
C1_AvailablePlusActive == available_rooms + ActiveCount = total_rooms

(***************************************************************************)
(* C2: a check_in that returns room number r is never made while r is a    *)
(* key of the active mapping: it replaces no active stay and grows the     *)
(* mapping by exactly one entry.                                           *)
(***************************************************************************)
C2_CheckInNeverReplaces ==
    [][(op' = "check_in" /\ ret'.kind = "room_number")
         => /\ ret'.room_number \notin DOMAIN guests
            /\ Cardinality(DOMAIN guests') = ActiveCount + 1]_vars

(***************************************************************************)
(* C3: in every reachable state room_type_count[T] is the number of active *)
(* stays of room type T, for each T of the catalog.                        *)
(***************************************************************************)
C3_CountersMatchActive ==
    \A T \in Catalog : room_type_count[T] = ActiveOfType(T)

(***************************************************************************)
(* C4: check_in with a room_type outside the catalog, while a room is      *)
(* available, does not raise: it returns the assigned room number, stores  *)
(* a stay costing 50 * nights and takes one room off available_rooms.      *)
(***************************************************************************)
C4_UnknownTypeChecksIn ==
    [][\A name \in Names, email \in Emails, phone \in Phones,
          room_type \in RoomTypeInputs \ Catalog, nights \in Nights,
          special_requests \in SpecialRequests, now \in Dates :
            (/\ check_in(name, email, phone, room_type, nights,
                         special_requests, now)
             /\ available_rooms > 0)
              => /\ ret'.kind = "room_number"
                 /\ ret'.room_number \in DOMAIN guests'
                 /\ guests'[ret'.room_number].room_type = room_type
                 /\ guests'[ret'.room_number].total_cost = 50 * nights
                 /\ available_rooms' = available_rooms - 1]_vars

(***************************************************************************)
(* C5: check_in with available_rooms = 0 returns None and leaves           *)
(* available_rooms, guests, history and the counters unchanged.            *)
(***************************************************************************)
C5_FullHotelRejects ==
    [][(op' = "check_in" /\ available_rooms = 0)
         => /\ ret' = RetNone
            /\ UNCHANGED <<available_rooms, guests, history, room_type_count>>]_vars

\* a full hotel has just turned a guest away
C5_Witness ==
    /\ op = "check_in"
    /\ ret = RetNone
    /\ available_rooms = 0
    /\ ActiveCount > 0

(***************************************************************************)
(* C6: check_out(r) for an r that is no key of the active mapping returns  *)
(* None and leaves available_rooms, guests, history and the counters       *)
(* unchanged; and after any check_out(r) the room r is no key of the       *)
(* mapping, so that a second check_out(r) right after it is such a call    *)
(* and leaves the state the first one left.                                *)
(***************************************************************************)
C6_CheckOutOfInactiveRoom ==
    [][\A room_number \in RoomInputs, now \in Dates :
          check_out(room_number, now)
            => /\ room_number \notin DOMAIN guests
                  => /\ ret' = RetNone
                     /\ UNCHANGED <<available_rooms, guests, history,
                                    room_type_count>>
               /\ room_number \notin DOMAIN guests']_vars

\* a check_out has just missed while another room is occupied and a stay is
\* already archived (a room checked out before is among the rooms that miss)
C6_Witness ==
    /\ op = "check_out"
    /\ ret = RetNone
    /\ ActiveCount > 0
    /\ Len(history) > 0

(***************************************************************************)
(* C7: check_out(r) for an r that is a key of the active mapping completes *)
(* and returns the archived record: exactly the entry r leaves the         *)
(* mapping, exactly one record is appended to history, carrying the stay's *)
(* original fields, room_number = r and a check-out timestamp,             *)
(* available_rooms grows by 1 and only that stay's counter drops by 1.     *)
(***************************************************************************)
C7_CheckOutArchives ==
    [][\A room_number \in RoomInputs, now \in Dates :
          (check_out(room_number, now) /\ room_number \in DOMAIN guests)
            => /\ ret'.kind = "guest"
               /\ guests' = DictPop(guests, room_number)
               /\ history' = Append(history, ret'.guest[1])
               /\ OriginalFields(ret'.guest[1]) = guests[room_number]
               /\ ret'.guest[1].room_number = room_number
               /\ ret'.guest[1].check_out_date = now
               /\ available_rooms' = available_rooms + 1
               /\ \A T \in Catalog :
                     room_type_count'[T] = room_type_count[T] -
                        (IF T = guests[room_number].room_type THEN 1 ELSE 0)]_vars

(***************************************************************************)
(* C8: history is append-only and order-preserving: across every step the  *)
(* old history is a prefix of the new one, only a successful check_out     *)
(* (one that returns the archived record) extends it, and it extends it by *)
(* that one record at the end.                                             *)
(***************************************************************************)
C8_HistoryAppendOnly ==
    [][/\ IsPrefix(history, history')
       /\ history' # history
            => /\ op' = "check_out"
               /\ ret'.kind = "guest"
               /\ history' = Append(history, ret'.guest[1])]_vars

(***************************************************************************)
(* C9: every stay in the active mapping or in history has                  *)
(* total_cost = price * nights, the price being 50 for Single, 80 for      *)
(* Double, 120 for Suite and 50 for any other room_type.                   *)
(***************************************************************************)
C9_TotalCost ==
    /\ \A r \in DOMAIN guests :
          guests[r].total_cost = ListedPrice(guests[r].room_type) * guests[r].nights
    /\ \A i \in 1..Len(history) :
          history[i].total_cost = ListedPrice(history[i].room_type) * history[i].nights

\* a two-night stay of an unlisted room type is archived at 100 and a
\* two-night Double is active at 160
C9_Witness ==
    /\ \E i \in 1..Len(history) :
          /\ history[i].room_type \notin Catalog
          /\ history[i].nights = 2
          /\ history[i].total_cost = 100
    /\ \E r \in DOMAIN guests :
          /\ guests[r].room_type = "Double"
          /\ guests[r].nights = 2
          /\ guests[r].total_cost = 160

(***************************************************************************)
(* C10: from a fresh registry, while nothing but check_ins with catalog    *)
(* room types has changed the registry and fewer than total_rooms of them  *)
(* were made, the next such check_in succeeds, the i-th returns room       *)
(* number i, and after k of them available_rooms = total_rooms - k with    *)
(* exactly the k stays 1..k active.                                        *)
(***************************************************************************)
\* no check_out has archived a stay and every stay checked in is of the catalog
OnlyCatalogCheckIns ==
    /\ history = <<>>
    /\ \A r \in DOMAIN guests : guests[r].room_type \in Catalog

C10_SequentialCheckIns ==
    [][(op' = "check_in" /\ OnlyCatalogCheckIns' /\ check_ins < total_rooms)
         => /\ check_ins' = check_ins + 1
            /\ ret' = RetRoom(check_ins')
            /\ available_rooms' = total_rooms - check_ins'
            /\ DOMAIN guests' = 1..check_ins'
            /\ \A r \in DOMAIN guests : guests'[r] = guests[r]]_vars

\* the hotel of MaxTotalRooms rooms was filled by check_ins alone
C10_Witness ==
    /\ op = "check_in"
    /\ OnlyCatalogCheckIns
    /\ total_rooms > 1
    /\ check_ins = total_rooms
    /\ ret = RetRoom(total_rooms)
    /\ available_rooms = 0
    /\ ActiveCount = total_rooms

(***************************************************************************)
(* C11: every check_in that returns a room number returns                  *)
(* total_rooms - available_rooms + 1, with available_rooms as it was       *)
(* before the call, and stores the new stay under that key.                *)
(***************************************************************************)
C11_RoomNumberPolicy ==
    [][\A name \in Names, email \in Emails, phone \in Phones,
          room_type \in RoomTypeInputs, nights \in Nights,
          special_requests \in SpecialRequests, now \in Dates :
            (/\ check_in(name, email, phone, room_type, nights,
                         special_requests, now)
             /\ ret'.kind = "room_number")
              => /\ ret'.room_number = total_rooms - available_rooms + 1
                 /\ DOMAIN guests' = DOMAIN guests \cup {ret'.room_number}
                 /\ guests'[ret'.room_number].name = name
                 /\ guests'[ret'.room_number].email = email
                 /\ guests'[ret'.room_number].phone = phone
                 /\ guests'[ret'.room_number].room_type = room_type
                 /\ guests'[ret'.room_number].nights = nights
                 /\ guests'[ret'.room_number].check_in_date = now
                 /\ guests'[ret'.room_number].special_requests = special_requests
                 /\ \A r \in DOMAIN guests \ {ret'.room_number} :
                       guests'[r] = guests[r]]_vars

\* a check_in has returned a room number after a check_out had freed a room,
\* and the stay is stored under it
C11_Witness ==
    /\ op = "check_in"
    /\ ret.kind = "room_number"
    /\ Len(history) > 0
    /\ ret.room_number = total_rooms - available_rooms
    /\ ret.room_number \in DOMAIN guests

(***************************************************************************)
(* C15: a stay that check_in returned a room number for stays in the       *)
(* active mapping until a check_out moves it to history: an entry of the   *)
(* active mapping is removed or replaced only by the check_out that        *)
(* appends it to history, and every check_in that returns a room number    *)
(* raises the number of active plus archived stays by one.                 *)
(***************************************************************************)
C15_StaysAreNeverLost ==
    [][/\ \A r \in DOMAIN guests :
             (r \notin DOMAIN guests' \/ guests'[r] # guests[r])
               => /\ op' = "check_out"
                  /\ r \notin DOMAIN guests'
                  /\ Len(history') = Len(history) + 1
                  /\ OriginalFields(history'[Len(history')]) = guests[r]
                  /\ history'[Len(history')].room_number = r
       /\ (op' = "check_in" /\ ret'.kind = "room_number")
            => Cardinality(DOMAIN guests') + Len(history')
                 = ActiveCount + Len(history) + 1]_vars

(***************************************************************************)
(* C17: check_in is all-or-nothing: a check_in call that does not return a *)
(* room number leaves available_rooms, guests, history and the counters    *)
(* as they were.                                                           *)
(***************************************************************************)
C17_CheckInAllOrNothing ==
    [][(op' = "check_in" /\ ret'.kind # "room_number")
         => UNCHANGED <<available_rooms, guests, history, room_type_count>>]_vars

(***************************************************************************)
(* C18: checking out every key of the active mapping ends with an empty    *)
(* mapping and available_rooms = total_rooms.  Every check_out of an       *)
(* active key removes it, so the runs of check_outs end in exactly the     *)
(* reachable states with an empty mapping: in each of them                 *)
(* available_rooms = total_rooms.                                          *)
(***************************************************************************)
C18_CapacityComesBack == (DOMAIN guests = {}) => available_rooms = total_rooms

(***************************************************************************)
(* C19: in every reachable state 0 <= available_rooms <= total_rooms, and  *)
(* every key of the active mapping and every room_number in history lies   *)
(* in 1..total_rooms.                                                      *)
(***************************************************************************)
C19_Ranges ==
    /\ 0 <= available_rooms
    /\ available_rooms <= total_rooms
    /\ \A r \in DOMAIN guests : r \in 1..total_rooms
    /\ \A i \in 1..Len(history) : history[i].room_number \in 1..total_rooms

\* a hotel that is full again after its highest room number was archived
C19_Witness ==
    /\ available_rooms = 0
    /\ total_rooms > 1
    /\ \E i \in 1..Len(history) : history[i].room_number = total_rooms
    /\ total_rooms \in DOMAIN guests

(***************************************************************************)
(* C12: a POST /checkout whose room field is no integer is caught at the   *)
(* boundary: check_out is not called, the registry is unchanged and the    *)
(* request ends in a redirect.                                             *)
(***************************************************************************)
C12_MalformedCheckoutIgnored ==
    [][\A room \in NonIntegerFields, now \in Dates :
          checkout([field \in {"room"} |-> room], now)
            => /\ response' = Redirect("/checkout")
               /\ UNCHANGED <<available_rooms, guests, history, room_type_count>>
               /\ UNCHANGED <<op, ret>>]_vars

\* a malformed checkout was answered with a redirect while a guest is active
\* and the method of Hotel called last is still the check_in
C12_Witness ==
    /\ response = Redirect("/checkout")
    /\ op = "check_in"
    /\ ActiveCount > 0

(***************************************************************************)
(* C13: every POST /checkin that carries the form fields (here with an     *)
(* integer nights field) ends in a redirect, whatever the registry state   *)
(* and the room_type; with no room available the state is unchanged.       *)
(***************************************************************************)
C13_CheckinAlwaysRedirects ==
    [][\A form \in CheckinForms, now \in Dates :
          (checkin(form, now) /\ int_accepts(form["nights"]))
            => /\ response' = Redirect("/checkin")
               /\ available_rooms = 0
                    => UNCHANGED <<available_rooms, guests, history,
                                   room_type_count>>]_vars

(***************************************************************************)
(* C16: get_available_by_type returns, for each room type of the catalog,  *)
(* its 1-based position in the declared order (Single 1, Double 2,         *)
(* Suite 3) minus room_type_count of that type, and changes no registry    *)
(* state.                                                                  *)
(***************************************************************************)
C16_AvailableByType ==
    [][response'.status = 200
         => /\ response'.body[1].available_by_type =
                  [Single |-> 1 - room_type_count["Single"],
                   Double |-> 2 - room_type_count["Double"],
                   Suite |-> 3 - room_type_count["Suite"]]
            /\ UNCHANGED <<total_rooms, available_rooms, guests, history,
                           room_type_count>>]_vars

\* the page was rendered with a Double and a Suite checked in
C16_Witness ==
    /\ response.status = 200
    /\ room_type_count["Double"] = 1
    /\ room_type_count["Suite"] = 1
    /\ response.body[1].available_by_type = [Single |-> 1, Double |-> 1, Suite |-> 2]

(***************************************************************************)
(* C20: every value returned by get_available_by_type is non-negative.     *)
(***************************************************************************)
C20_AvailableByTypeNonNegative ==
    response.status = 200
      => \A T \in Catalog : response.body[1].available_by_type[T] >= 0

(***************************************************************************)
(* C14: when two check_in executions interleave, a state is reachable in   *)
(* which both have returned the same room_number and only one of the two   *)
(* stays is in the active mapping (C14_Witness); when the two run one      *)
(* after the other, they never return the same room_number.                *)
(***************************************************************************)
BothReturnedRoom ==
    \A t \in Threads :
        threads[t].pc = "done" /\ threads[t].result.kind = "room_number"

Serial == \A t \in Threads : threads[t].alone

C14_SerialCheckInsDiffer ==
    (BothReturnedRoom /\ Serial)
      => threads["t1"].result.room_number # threads["t2"].result.room_number

\* two interleaved check_ins both returned the same room number and one
\* stay is left
C14_Witness ==
    /\ BothReturnedRoom
    /\ ~Serial
    /\ threads["t1"].result.room_number = threads["t2"].result.room_number
    /\ ActiveCount = 1
    /\ total_rooms > 1

====
